---- MODULE Spec2Model ----
(***************************************************************************)
(* Model of tattler-client-go: the fscache package (FSCache store and the  *)
(* InstanceMap registry) and the TattlerClientHTTP client that journals    *)
(* its delivery attempts in such a store.                                  *)
(*                                                                         *)
(* The file system is modelled as one table of entries per path.  Every    *)
(* os.* call the package makes is an operator over such a table, with the  *)
(* failure conditions the operating system derives from the table itself   *)
(* (missing entry, entry is a directory, directory not empty, path not a   *)
(* writable directory).  Durations and timestamps are integer clock ticks. *)
(***************************************************************************)
EXTENDS Integers, Sequences, FiniteSets, TLC

(* ------------------------------ bounds --------------------------------- *)
MaxTime == 2
MaxObjs == 2
NProcs == 2

(* ------------------------------ universe ------------------------------- *)
\* paths handed to New / GetInstance
CachePath == "/cache"
OtherPath == "/other"
Paths == {CachePath, OtherPath, "/non-existing/path", "/etc/hosts", "/readonly"}

\* keys callers pass to Set; "sub" is also the name of a sub-directory that
\* the root may hold
Keys == {"a", "sub"}
ProbePrefix == "dirvalidation"

\* os.CreateTemp(dir, prefix + ".*"): prefix, a dot, a random string
RandomStrings == {"1"}
TempName(prefix, r) == prefix \o "." \o r
TempNames(prefix) == {TempName(prefix, r) : r \in RandomStrings}

\* the random strings of concurrent callers, whose temporary files coexist
ConcRandomStrings == {"1", "2"}
ConcTempNames(prefix) == {TempName(prefix, r) : r \in ConcRandomStrings}

\* every entry name of the model, in the order os.ReadDir reports (by filename)
NameSeq == <<"a", "a.1", "a.2", "dirvalidation.1", "sub", "sub.1", "sub.2">>
Names == {NameSeq[i] : i \in 1..Len(NameSeq)}

ByteSeqs == {<< >>, <<1>>}

\* a Go []byte: nil is distinct from the empty slice
NilBytes == [nil |-> TRUE, bytes |-> << >>]
SomeBytes(b) == [nil |-> FALSE, bytes |-> b]
Payloads == {NilBytes} \cup {SomeBytes(b) : b \in ByteSeqs}

Durations == (0 - 1)..MaxTime

\* locked: the process is not permitted to unlink or replace the entry (it
\* belongs to another user and the directory has the sticky bit)
NoEntry == [kind |-> "none", data |-> << >>, mtime |-> 0, kids |-> 0, locked |-> FALSE]
FileEntry(b, t) == [kind |-> "file", data |-> b, mtime |-> t, kids |-> 0, locked |-> FALSE]
DirEntry(k) == [kind |-> "dir", data |-> << >>, mtime |-> 0, kids |-> k, locked |-> FALSE]
Locked(e) == [e EXCEPT !.locked = TRUE]
EmptyDir == [n \in Names |-> NoEntry]

VARIABLES
    pathKind,   \* path -> "dir" | "missing" | "file" | "readonly"
    fs,         \* path -> (entry name -> entry)
    now,        \* wall clock
    objs,       \* allocated FSCache objects: objs[i] is the path field of object i
    instance,   \* instanceMap.instance: path -> object (0: no entry)
    mux,        \* instanceMap.mux: 0 free, else the goroutine holding it
    last,       \* the call the sequential caller completed last, with its results
    pc,         \* goroutine -> position inside GetInstance
    gpath,      \* goroutine -> path argument of its GetInstance call
    ginst,      \* goroutine -> inst local of its GetInstance call
    gtmp,       \* goroutine -> name of the probe file New created
    returned,   \* path -> objects GetInstance has returned for it
    recorded,   \* path -> objects that were stored in instanceMap.instance for it
    overlap,    \* paths for which a call returned while another call was in progress
    failed,     \* paths for which a GetInstance of the sequential caller failed
    gcall,      \* goroutine -> key, value and result of its store call
    written,    \* key -> values handed to a Set of that key so far
    conf,       \* the TattlerClientHTTP value
    att,        \* the delivery attempt in progress
    cwd         \* entry table of the process's working directory

vars == <<pathKind, fs, now, objs, instance, mux, last, pc, gpath, ginst, gtmp,
          returned, recorded, overlap, failed, gcall, written, conf, att, cwd>>

(* --------------------------- operating system -------------------------- *)
Present(d, n) == d[n].kind # "none"

\* names os.CreateTemp may pick: it retries until the name is unused
FreeTemps(d, prefix) == {n \in TempNames(prefix) : ~Present(d, n)}

OsCreateTemp(kind, d, name, t) ==
    IF kind # "dir"
    THEN [dir |-> d, err |-> TRUE]
    ELSE [dir |-> [d EXCEPT ![name] = FileEntry(<< >>, t)], err |-> FALSE]

\* write(2) of b to the open file: wn bytes get written, and the call fails
\* unless that is all of them (disk full, quota, I/O error)
OsWrite(d, name, b, wn, t) ==
    [dir |-> [d EXCEPT ![name] = FileEntry(d[name].data \o SubSeq(b, 1, wn), t)],
     err |-> wn < Len(b)]

OsTruncate(d, name, n) ==
    [d EXCEPT ![name].data = SubSeq(d[name].data, 1, n)]

\* rename(2): a file cannot replace a directory; otherwise the replace is atomic
\* and the modification time travels with the file
OsRename(d, old, new) ==
    IF d[new].kind = "dir" \/ d[new].locked
    THEN [dir |-> d, err |-> TRUE]
    ELSE [dir |-> [d EXCEPT ![new] = d[old], ![old] = NoEntry], err |-> FALSE]

OsStat(d, n) == [info |-> d[n], err |-> ~Present(d, n)]

OsReadFile(d, n) ==
    IF d[n].kind = "file"
    THEN [data |-> SomeBytes(d[n].data), err |-> FALSE]
    ELSE [data |-> NilBytes, err |-> TRUE]

\* os.Remove: unlink, or rmdir of an empty directory
OsRemove(d, n) ==
    IF ~Present(d, n) \/ (d[n].kind = "dir" /\ d[n].kids > 0) \/ d[n].locked
    THEN [dir |-> d, err |-> TRUE]
    ELSE [dir |-> [d EXCEPT ![n] = NoEntry], err |-> FALSE]

\* os.RemoveAll: removes the entry and everything below it; a missing entry is no error
OsRemoveAll(d, n) ==
    IF d[n].locked
    THEN [dir |-> d, err |-> TRUE]
    ELSE [dir |-> [d EXCEPT ![n] = NoEntry], err |-> FALSE]

OsReadDir(d) == SelectSeq(NameSeq, LAMBDA n : Present(d, n))

(* ------------------------------- FSCache ------------------------------- *)
\* variant: the directory is not probed
NewNoValidation(kind, d, tmp, t) == [dir |-> d, err |-> FALSE]

\* variant: the probe file is left in the directory
NewLeavesProbe(kind, d, tmp, t) ==
    LET c == OsCreateTemp(kind, d, tmp, t)
    IN  IF c.err
        THEN [dir |-> d, err |-> TRUE]
        ELSE [dir |-> c.dir, err |-> FALSE]

\* New(path): probe the directory by creating and removing a file.
\* kind is the state of the path, d its entry table, tmp the probe name picked.
New(kind, d, tmp, t) ==
    LET c == OsCreateTemp(kind, d, tmp, t)
    IN  IF c.err
        THEN [dir |-> d, err |-> TRUE]
        ELSE [dir |-> OsRemove(c.dir, tmp).dir, err |-> FALSE]

\* os.ReadDir fails unless the path is a directory
ScanFails(kind) == kind \notin {"dir", "readonly"}

\* variant: the listing keeps directories
ListWithDirs(kind, d) ==
    IF ScanFails(kind)
    THEN [keys |-> << >>, err |-> TRUE]
    ELSE [keys |-> OsReadDir(d), err |-> FALSE]

List(kind, d) ==
    IF ScanFails(kind)
    THEN [keys |-> << >>, err |-> TRUE]
    ELSE [keys |-> SelectSeq(OsReadDir(d), LAMBDA n : d[n].kind # "dir"), err |-> FALSE]

\* variant: a nil value is written like an empty one
SetNilWrites(kind, d, key, value, tmp, wn, t) ==
    LET c == OsCreateTemp(kind, d, tmp, t)
    IN  IF c.err
        THEN [dir |-> d, err |-> TRUE]
        ELSE LET w == OsWrite(c.dir, tmp, value.bytes, wn, t)
             IN  IF w.err
                 THEN [dir |-> OsRemove(w.dir, tmp).dir, err |-> TRUE]
                 ELSE [dir |-> OsRename(w.dir, tmp, key).dir, err |-> FALSE]

\* Set(key, value); tmp is the name os.CreateTemp picks for key + ".*", wn the
\* number of bytes f.Write gets written
Set(kind, d, key, value, tmp, wn, t) ==
    IF value.nil
    THEN [dir |-> d, err |-> FALSE]
    ELSE LET c == OsCreateTemp(kind, d, tmp, t)
         IN  IF c.err
             THEN [dir |-> d, err |-> TRUE]
             ELSE LET w == OsWrite(c.dir, tmp, value.bytes, wn, t)
                  IN  IF w.err
                      THEN [dir |-> OsRemove(w.dir, tmp).dir, err |-> TRUE]
                      ELSE LET tr == OsTruncate(w.dir, tmp, Len(value.bytes))
                           IN  \* the result of os.Rename is discarded
                               [dir |-> OsRename(tr, tmp, key).dir, err |-> FALSE]

\* variant: the age check is applied whatever the sign of maxAge
GetExpiryAlwaysAges(d, key, maxAge, t) ==
    LET st == OsStat(d, key)
    IN  IF st.err
        THEN NilBytes
        ELSE IF t - st.info.mtime > maxAge
             THEN NilBytes
             ELSE LET rd == OsReadFile(d, key)
                  IN  IF rd.err THEN NilBytes ELSE rd.data

GetExpiry(d, key, maxAge, t) ==
    LET st == OsStat(d, key)
    IN  IF st.err
        THEN NilBytes
        ELSE IF maxAge > 0 /\ t - st.info.mtime > maxAge
             THEN NilBytes
             ELSE LET rd == OsReadFile(d, key)
                  IN  IF rd.err THEN NilBytes ELSE rd.data

Get(d, key, t) == GetExpiry(d, key, 0, t)

RECURSIVE ClearLoop(_, _, _)
ClearLoop(d, direntries, nerr) ==
    IF direntries = << >>
    THEN [dir |-> d, err |-> nerr]
    ELSE LET r == OsRemoveAll(d, Head(direntries))
         IN  ClearLoop(r.dir, Tail(direntries), r.err)

\* variant: the first entry of the listing is skipped
ClearSkipsFirst(kind, d) ==
    IF ScanFails(kind)
    THEN [dir |-> d, err |-> TRUE]
    ELSE IF OsReadDir(d) = << >>
         THEN [dir |-> d, err |-> FALSE]
         ELSE ClearLoop(d, Tail(OsReadDir(d)), FALSE)

Clear(kind, d) ==
    IF ScanFails(kind)
    THEN [dir |-> d, err |-> TRUE]
    ELSE ClearLoop(d, OsReadDir(d), FALSE)

Unset(d, key) ==
    IF OsStat(d, key).err
    THEN [dir |-> d, ret |-> FALSE]
    ELSE [dir |-> OsRemove(d, key).dir, ret |-> TRUE]

\* snap is the directory as os.ReadDir saw it (IsDir comes from the listing),
\* d the directory as it is when the entry is examined (Info stats it then)
RECURSIVE ClearExpiredLoop(_, _, _, _, _)
ClearExpiredLoop(snap, d, direntries, age, t) ==
    IF direntries = << >>
    THEN [dir |-> d, err |-> FALSE]
    ELSE LET n  == Head(direntries)
             st == OsStat(d, n)
         IN  IF snap[n].kind # "dir" /\ ~st.err /\ t - st.info.mtime > age
             THEN LET r == OsRemove(d, n)
                  IN  IF r.err
                      THEN [dir |-> r.dir, err |-> TRUE]
                      ELSE ClearExpiredLoop(snap, r.dir, Tail(direntries), age, t)
             ELSE ClearExpiredLoop(snap, d, Tail(direntries), age, t)

\* variant of the loop: a failed removal is remembered and the loop goes on
RECURSIVE ClearExpiredLoopAll(_, _, _, _, _, _)
ClearExpiredLoopAll(snap, d, direntries, age, t, err) ==
    IF direntries = << >>
    THEN [dir |-> d, err |-> err]
    ELSE LET n  == Head(direntries)
             st == OsStat(d, n)
         IN  IF snap[n].kind # "dir" /\ ~st.err /\ t - st.info.mtime > age
             THEN LET r == OsRemove(d, n)
                  IN  ClearExpiredLoopAll(snap, r.dir, Tail(direntries), age, t,
                                          err \/ r.err)
             ELSE ClearExpiredLoopAll(snap, d, Tail(direntries), age, t, err)

\* variant: the sweep goes on after a removal failed
ClearExpiredKeepsGoing(kind, d, age, t) ==
    IF ScanFails(kind)
    THEN [dir |-> d, err |-> TRUE]
    ELSE ClearExpiredLoopAll(d, d, OsReadDir(d), age, t, FALSE)

\* variant: entries exactly as old as age are removed too
ClearExpiredInclusive(kind, d, age, t) ==
    IF ScanFails(kind)
    THEN [dir |-> d, err |-> TRUE]
    ELSE ClearExpiredLoop(d, d, OsReadDir(d), age - 1, t)

ClearExpired(kind, d, age, t) ==
    IF ScanFails(kind)
    THEN [dir |-> d, err |-> TRUE]
    ELSE ClearExpiredLoop(d, d, OsReadDir(d), age, t)

RECURSIVE CountFiles(_, _)
CountFiles(d, direntries) ==
    IF direntries = << >>
    THEN 0
    ELSE (IF d[Head(direntries)].kind # "dir" THEN 1 ELSE 0)
         + CountFiles(d, Tail(direntries))

FSCacheLen(kind, d) ==
    IF ScanFails(kind) THEN 0 ELSE CountFiles(d, OsReadDir(d))

(* ------------------------------ registry ------------------------------- *)
\* variant: the mapping is not consulted
GetInstanceNoLookup(path, tmp) ==
    LET r == New(pathKind[path], fs[path], tmp, now)
        c == Len(objs) + 1
    IN  IF r.err
        THEN [inst |-> 0, err |-> TRUE, objs |-> objs,
              instance |-> instance, dir |-> r.dir]
        ELSE [inst |-> c, err |-> FALSE, objs |-> Append(objs, path),
              instance |-> [instance EXCEPT ![path] = c], dir |-> r.dir]

\* variant: the mapping gets its entry before the result of New is examined
GetInstanceCachesFailure(path, tmp) ==
    IF instance[path] # 0
    THEN [inst |-> instance[path], err |-> FALSE, objs |-> objs,
          instance |-> instance, dir |-> fs[path]]
    ELSE LET r == New(pathKind[path], fs[path], tmp, now)
             c == Len(objs) + 1
         IN  [inst |-> IF r.err THEN 0 ELSE c, err |-> r.err,
              objs |-> Append(objs, path),
              instance |-> [instance EXCEPT ![path] = c], dir |-> r.dir]

\* GetInstance(path) run to completion with the lock held; tmp is the probe
\* name New picks
GetInstance(path, tmp) ==
    IF instance[path] # 0
    THEN [inst |-> instance[path], err |-> FALSE, objs |-> objs,
          instance |-> instance, dir |-> fs[path]]
    ELSE LET r == New(pathKind[path], fs[path], tmp, now)
             c == Len(objs) + 1
         IN  IF r.err
             THEN [inst |-> 0, err |-> TRUE, objs |-> objs,
                   instance |-> instance, dir |-> r.dir]
             ELSE [inst |-> c, err |-> FALSE, objs |-> Append(objs, path),
                   instance |-> [instance EXCEPT ![path] = c], dir |-> r.dir]

(* --------------------------- sequential caller ------------------------- *)
Procs == 1..NProcs

NoCall == [op |-> "none", path |-> "", key |-> "", val |-> NilBytes, age |-> 0,
           ret |-> NilBytes, err |-> FALSE, inst |-> 0, keys |-> << >>, n |-> 0,
           lenBefore |-> 0, dirsBefore |-> 0]

\* the root of object fc and the state of its path
Root(fc) == fs[objs[fc]]
Kind(fc) == pathKind[objs[fc]]
DirCount(d) == Cardinality({n \in Names : d[n].kind = "dir"})
Objects == 1..Len(objs)

\* a goroutine that is not inside a store call
\* todo, age: the entries a ClearExpired call has yet to examine, and its age;
\* ok, removed: the result of an Unset call, and whether its os.Remove succeeded
NoStoreCall == [op |-> "none", key |-> "", val |-> NilBytes, ret |-> NilBytes,
                todo |-> << >>, age |-> 0, ok |-> FALSE, removed |-> FALSE]

ProcVarsIdle ==
    /\ pc = [g \in Procs |-> "idle"]
    /\ gpath = [g \in Procs |-> ""]
    /\ ginst = [g \in Procs |-> 0]
    /\ gtmp = [g \in Procs |-> ""]
    /\ mux = 0
    /\ gcall = [g \in Procs |-> NoStoreCall]
    /\ written = [k \in Keys |-> {}]

\* the zero value of TattlerClientHTTP; strings are sequences of characters
NoConf == [Scope |-> << >>, Endpoint |-> << >>, Timeout |-> 0, Mode |-> << >>,
           PersistencyDir |-> ""]

\* no delivery attempt in progress
NoAttempt == [n |-> 0, pc |-> "idle", url |-> NilBytes, body |-> NilBytes,
              taskname |-> "", persisterr |-> FALSE, short |-> "",
              status |-> 0, text |-> "", err |-> FALSE]

\* no client in the process
ClientIdle ==
    /\ failed = {}
    /\ conf = NoConf
    /\ att = NoAttempt
    /\ cwd = EmptyDir

\* the paths of the test suite: one usable directory, one that does not exist,
\* one that is a regular file, one that is a directory without write permission
KindsSeq ==
    [p \in Paths |-> CASE p = CachePath -> "dir"
                       [] p = "/etc/hosts" -> "file"
                       [] p = "/readonly" -> "readonly"
                       [] OTHER -> "missing"]

\* what the root may hold besides records: nothing, or a sub-directory (empty
\* or not) somebody else put there
InitialRoots ==
    {EmptyDir} \cup {[EmptyDir EXCEPT !["sub"] = DirEntry(k)] : k \in 0..1}

ProbeChoices(p) ==
    IF pathKind[p] = "dir" THEN FreeTemps(fs[p], ProbePrefix) ELSE TempNames(ProbePrefix)

DoNew(p) ==
    \E tmp \in ProbeChoices(p) :
        LET r == New(pathKind[p], fs[p], tmp, now)
        IN  /\ r.err \/ Len(objs) < MaxObjs
            /\ fs' = [fs EXCEPT ![p] = r.dir]
            /\ objs' = IF r.err THEN objs ELSE Append(objs, p)
            /\ last' = [NoCall EXCEPT !.op = "New", !.path = p, !.err = r.err,
                                      !.inst = IF r.err THEN 0 ELSE Len(objs) + 1]
            /\ UNCHANGED <<pathKind, now, instance, mux, pc, gpath, ginst, gtmp,
                           returned, recorded, overlap, failed, gcall, written,
                           conf, att, cwd>>

DoGetInstance(p) ==
    \E tmp \in ProbeChoices(p) :
        LET r == GetInstance(p, tmp)
        IN  /\ Len(r.objs) <= MaxObjs
            /\ fs' = [fs EXCEPT ![p] = r.dir]
            /\ objs' = r.objs
            /\ instance' = r.instance
            /\ returned' = IF r.err THEN returned
                           ELSE [returned EXCEPT ![p] = @ \cup {r.inst}]
            /\ recorded' = [q \in Paths |->
                              IF r.instance[q] # 0 THEN recorded[q] \cup {r.instance[q]}
                              ELSE recorded[q]]
            /\ last' = [NoCall EXCEPT !.op = "GetInstance", !.path = p,
                                      !.err = r.err, !.inst = r.inst]
            /\ failed' = IF r.err THEN failed \cup {p} ELSE failed
            /\ UNCHANGED <<pathKind, now, mux, pc, gpath, ginst, gtmp, overlap,
                           gcall, written, conf, att, cwd>>

StoreFrame == UNCHANGED <<pathKind, now, objs, instance, mux, pc, gpath, ginst, gtmp,
                          returned, recorded, overlap, failed, gcall, written,
                          conf, att, cwd>>

\* fc = 0 is the nil receiver
DoSet(fc, key, value) ==
    IF fc = 0
    THEN /\ last' = [NoCall EXCEPT !.op = "Set", !.key = key, !.val = value, !.err = TRUE]
         /\ UNCHANGED fs
         /\ StoreFrame
    ELSE \E tmp \in FreeTemps(Root(fc), key), wn \in 0..Len(value.bytes) :
            LET r == Set(Kind(fc), Root(fc), key, value, tmp, wn, now)
            IN  /\ fs' = [fs EXCEPT ![objs[fc]] = r.dir]
                /\ last' = [NoCall EXCEPT !.op = "Set", !.path = objs[fc], !.key = key,
                                          !.val = value, !.err = r.err, !.inst = fc]
                /\ StoreFrame

DoGetExpiry(fc, key, maxAge) ==
    /\ last' = [NoCall EXCEPT !.op = "GetExpiry", !.path = objs[fc], !.key = key,
                              !.age = maxAge, !.inst = fc,
                              !.ret = GetExpiry(Root(fc), key, maxAge, now)]
    /\ UNCHANGED fs
    /\ StoreFrame

DoGet(fc, key) ==
    /\ last' = [NoCall EXCEPT !.op = "Get", !.path = objs[fc], !.key = key, !.inst = fc,
                              !.ret = Get(Root(fc), key, now)]
    /\ UNCHANGED fs
    /\ StoreFrame

\* err records the negation of the boolean Unset returns
DoUnset(fc, key) ==
    LET r == Unset(Root(fc), key)
    IN  /\ fs' = [fs EXCEPT ![objs[fc]] = r.dir]
        /\ last' = [NoCall EXCEPT !.op = "Unset", !.path = objs[fc], !.key = key,
                                  !.inst = fc, !.err = ~r.ret]
        /\ StoreFrame

DoClear(fc) ==
    LET r == Clear(Kind(fc), Root(fc))
    IN  /\ fs' = [fs EXCEPT ![objs[fc]] = r.dir]
        /\ last' = [NoCall EXCEPT !.op = "Clear", !.path = objs[fc], !.inst = fc,
                                  !.err = r.err,
                                  !.lenBefore = FSCacheLen(Kind(fc), Root(fc)),
                                  !.dirsBefore = DirCount(Root(fc))]
        /\ StoreFrame

DoClearExpired(fc, age) ==
    LET r == ClearExpired(Kind(fc), Root(fc), age, now)
    IN  /\ fs' = [fs EXCEPT ![objs[fc]] = r.dir]
        /\ last' = [NoCall EXCEPT !.op = "ClearExpired", !.path = objs[fc], !.inst = fc,
                                  !.age = age, !.err = r.err,
                                  !.lenBefore = FSCacheLen(Kind(fc), Root(fc))]
        /\ StoreFrame

DoList(fc) ==
    LET r == List(Kind(fc), Root(fc))
    IN  /\ last' = [NoCall EXCEPT !.op = "List", !.path = objs[fc], !.inst = fc,
                                  !.keys = r.keys, !.err = r.err]
        /\ UNCHANGED fs
        /\ StoreFrame

DoLen(fc) ==
    /\ last' = [NoCall EXCEPT !.op = "Len", !.path = objs[fc], !.inst = fc,
                              !.n = FSCacheLen(Kind(fc), Root(fc))]
    /\ UNCHANGED fs
    /\ StoreFrame

\* time passes between two calls
Tick ==
    /\ now < MaxTime
    /\ now' = now + 1
    /\ last' = [NoCall EXCEPT !.op = "Tick"]
    /\ UNCHANGED <<pathKind, fs, objs, instance, mux, pc, gpath, ginst, gtmp,
                   returned, recorded, overlap, failed, gcall, written,
                   conf, att, cwd>>

\* somebody creates the directory a path names (mkdir -p)
MakeDir(p) ==
    /\ pathKind[p] = "missing"
    /\ pathKind' = [pathKind EXCEPT ![p] = "dir"]
    /\ last' = [NoCall EXCEPT !.op = "MakeDir", !.path = p]
    /\ UNCHANGED <<fs, now, objs, instance, mux, pc, gpath, ginst, gtmp,
                   returned, recorded, overlap, failed, gcall, written,
                   conf, att, cwd>>

(* Spec: one caller working on the store it obtained with                  *)
(* GetInstance(CachePath), as every test of the store does.                *)
Init ==
    /\ pathKind = KindsSeq
    /\ \E r \in InitialRoots : fs = [p \in Paths |-> IF p = CachePath THEN r ELSE EmptyDir]
    /\ now = 0
    /\ objs = <<CachePath>>
    /\ instance = [p \in Paths |-> IF p = CachePath THEN 1 ELSE 0]
    /\ last = NoCall
    /\ returned = [p \in Paths |-> IF p = CachePath THEN {1} ELSE {}]
    /\ recorded = [p \in Paths |-> IF p = CachePath THEN {1} ELSE {}]
    /\ overlap = {}
    /\ ProcVarsIdle
    /\ ClientIdle

Next ==
    \/ \E fc \in {0} \cup Objects, key \in Keys, value \in Payloads : DoSet(fc, key, value)
    \/ \E fc \in Objects, key \in Keys, maxAge \in Durations : DoGetExpiry(fc, key, maxAge)
    \/ \E fc \in Objects, key \in Names : DoGet(fc, key)
    \/ \E fc \in Objects, key \in Names : DoUnset(fc, key)
    \/ \E fc \in Objects : DoClear(fc)
    \/ \E fc \in Objects, age \in Durations : DoClearExpired(fc, age)
    \/ \E fc \in Objects : DoList(fc)
    \/ \E fc \in Objects : DoLen(fc)
    \/ Tick

Spec == Init /\ [][Next]_vars

(* SpecReg: one caller constructing stores and asking the registry for     *)
(* them, using the stores in between.                                      *)
KindsReg ==
    [p \in Paths |-> CASE p \in {CachePath, OtherPath} -> "dir"
                       [] p = "/etc/hosts" -> "file"
                       [] p = "/readonly" -> "readonly"
                       [] OTHER -> "missing"]

InitReg ==
    /\ pathKind = KindsReg
    /\ fs = [p \in Paths |-> EmptyDir]
    /\ now = 0
    /\ objs = << >>
    /\ instance = [p \in Paths |-> 0]
    /\ last = NoCall
    /\ returned = [p \in Paths |-> {}]
    /\ recorded = [p \in Paths |-> {}]
    /\ overlap = {}
    /\ ProcVarsIdle
    /\ ClientIdle

NextReg ==
    \/ \E p \in Paths : DoNew(p)
    \/ \E p \in Paths : DoGetInstance(p)
    \/ \E fc \in Objects, value \in Payloads : DoSet(fc, "a", value)
    \/ \E fc \in Objects : DoUnset(fc, "a")
    \/ \E fc \in Objects : DoClear(fc)

SpecReg == InitReg /\ [][NextReg]_vars

(* SpecLocked: one caller on a store whose root has the sticky bit and      *)
(* holds entries of another user, which the caller may not remove.         *)
ForeignEntries ==
    {NoEntry, FileEntry(<<1>>, 0), Locked(FileEntry(<<1>>, 0))}

LockedRoots ==
    {[EmptyDir EXCEPT !["a"] = ea, !["a.1"] = eb, !["sub"] = ec] :
        ea \in ForeignEntries, eb \in ForeignEntries,
        ec \in ForeignEntries \cup {Locked(DirEntry(1))}}

InitLocked ==
    /\ pathKind = KindsSeq
    /\ \E r \in LockedRoots : fs = [p \in Paths |-> IF p = CachePath THEN r ELSE EmptyDir]
    /\ now = 0
    /\ objs = <<CachePath>>
    /\ instance = [p \in Paths |-> IF p = CachePath THEN 1 ELSE 0]
    /\ last = NoCall
    /\ returned = [p \in Paths |-> IF p = CachePath THEN {1} ELSE {}]
    /\ recorded = [p \in Paths |-> IF p = CachePath THEN {1} ELSE {}]
    /\ overlap = {}
    /\ ProcVarsIdle
    /\ ClientIdle

NextLocked ==
    \/ \E fc \in Objects : DoClear(fc)
    \/ \E fc \in Objects, age \in Durations : DoClearExpired(fc, age)
    \/ \E fc \in Objects, key \in Keys, value \in Payloads : DoSet(fc, key, value)
    \/ Tick

SpecLocked == InitLocked /\ [][NextLocked]_vars

(* SpecRetry: one caller asking the registry for stores on paths that do   *)
(* not exist yet, while somebody creates them.                             *)
RetryPaths == {CachePath, "/non-existing/path"}

InitRetry ==
    /\ pathKind = [p \in Paths |-> IF p = "/etc/hosts" THEN "file" ELSE "missing"]
    /\ fs = [p \in Paths |-> EmptyDir]
    /\ now = 0
    /\ objs = << >>
    /\ instance = [p \in Paths |-> 0]
    /\ last = NoCall
    /\ returned = [p \in Paths |-> {}]
    /\ recorded = [p \in Paths |-> {}]
    /\ overlap = {}
    /\ ProcVarsIdle
    /\ ClientIdle

NextRetry ==
    \/ \E p \in RetryPaths : DoGetInstance(p)
    \/ \E p \in RetryPaths : MakeDir(p)
    \/ \E fc \in Objects, value \in Payloads : DoSet(fc, "a", value)
    \/ \E fc \in Objects : DoUnset(fc, "a")

SpecRetry == InitRetry /\ [][NextRetry]_vars

(* --------------------------- concurrent callers ------------------------ *)
(* SpecConc: goroutines call GetInstance concurrently; every statement of  *)
(* GetInstance and of the New it calls is one step.                        *)
SeqFrame == UNCHANGED <<pathKind, now, last, failed, gcall, written, conf, att, cwd>>

InCall(g, p) == pc[g] # "idle" /\ gpath[g] = p

\* a goroutine enters GetInstance(p)
GI_Call(g, p) ==
    /\ pc[g] = "idle"
    /\ pc' = [pc EXCEPT ![g] = "lock"]
    /\ gpath' = [gpath EXCEPT ![g] = p]
    /\ ginst' = [ginst EXCEPT ![g] = 0]
    /\ UNCHANGED <<fs, objs, instance, mux, gtmp, returned, recorded, overlap>>
    /\ SeqFrame

\* variant: Lock does not wait for the holder
GI_LockNoWait(g) ==
    /\ pc[g] = "lock"
    /\ mux' = g
    /\ pc' = [pc EXCEPT ![g] = "lookup"]
    /\ UNCHANGED <<fs, objs, instance, gpath, ginst, gtmp, returned, recorded, overlap>>
    /\ SeqFrame

\* instanceMap.mux.Lock()
GI_Lock(g) ==
    /\ pc[g] = "lock"
    /\ mux = 0
    /\ mux' = g
    /\ pc' = [pc EXCEPT ![g] = "lookup"]
    /\ UNCHANGED <<fs, objs, instance, gpath, ginst, gtmp, returned, recorded, overlap>>
    /\ SeqFrame

\* inst, ok := instanceMap.instance[path]; if ok { return inst, nil }
GI_Lookup(g) ==
    /\ pc[g] = "lookup"
    /\ IF instance[gpath[g]] # 0
       THEN /\ ginst' = [ginst EXCEPT ![g] = instance[gpath[g]]]
            /\ pc' = [pc EXCEPT ![g] = "ret_ok"]
       ELSE /\ pc' = [pc EXCEPT ![g] = "create"]
            /\ UNCHANGED ginst
    /\ UNCHANGED <<fs, objs, instance, mux, gpath, gtmp, returned, recorded, overlap>>
    /\ SeqFrame

\* New: tmpf, err := os.CreateTemp(path, "dirvalidation.*")
GI_CreateTemp(g) ==
    /\ pc[g] = "create"
    /\ \E tmp \in ProbeChoices(gpath[g]) :
         LET c == OsCreateTemp(pathKind[gpath[g]], fs[gpath[g]], tmp, now)
         IN  /\ fs' = [fs EXCEPT ![gpath[g]] = c.dir]
             /\ gtmp' = [gtmp EXCEPT ![g] = IF c.err THEN "" ELSE tmp]
             /\ pc' = [pc EXCEPT ![g] = IF c.err THEN "ret_err" ELSE "remove"]
    /\ UNCHANGED <<objs, instance, mux, gpath, ginst, returned, recorded, overlap>>
    /\ SeqFrame

\* New: os.Remove(tmpf.Name()); tmpf.Close(); c := &FSCache{path: path}
GI_Remove(g) ==
    /\ pc[g] = "remove"
    /\ Len(objs) < MaxObjs
    /\ fs' = [fs EXCEPT ![gpath[g]] = OsRemove(@, gtmp[g]).dir]
    /\ objs' = Append(objs, gpath[g])
    /\ ginst' = [ginst EXCEPT ![g] = Len(objs) + 1]
    /\ gtmp' = [gtmp EXCEPT ![g] = ""]
    /\ pc' = [pc EXCEPT ![g] = "insert"]
    /\ UNCHANGED <<instance, mux, gpath, returned, recorded, overlap>>
    /\ SeqFrame

\* instanceMap.instance[path] = inst
GI_Insert(g) ==
    /\ pc[g] = "insert"
    /\ instance' = [instance EXCEPT ![gpath[g]] = ginst[g]]
    /\ recorded' = [recorded EXCEPT ![gpath[g]] = @ \cup {ginst[g]}]
    /\ pc' = [pc EXCEPT ![g] = "ret_ok"]
    /\ UNCHANGED <<fs, objs, mux, gpath, ginst, gtmp, returned, overlap>>
    /\ SeqFrame

\* return inst, nil, and the deferred instanceMap.mux.Unlock()
GI_ReturnInst(g) ==
    /\ pc[g] = "ret_ok"
    /\ mux' = 0
    /\ returned' = [returned EXCEPT ![gpath[g]] = @ \cup {ginst[g]}]
    /\ overlap' = IF \E h \in Procs \ {g} : InCall(h, gpath[g])
                  THEN overlap \cup {gpath[g]} ELSE overlap
    /\ pc' = [pc EXCEPT ![g] = "idle"]
    /\ UNCHANGED <<fs, objs, instance, gpath, ginst, gtmp, recorded>>
    /\ SeqFrame

\* variant: the error return leaves the lock held
GI_ReturnErrKeepsLock(g) ==
    /\ pc[g] = "ret_err"
    /\ pc' = [pc EXCEPT ![g] = "idle"]
    /\ UNCHANGED <<fs, objs, instance, mux, gpath, ginst, gtmp, returned, recorded, overlap>>
    /\ SeqFrame

\* return nil, err, and the deferred instanceMap.mux.Unlock()
GI_ReturnErr(g) ==
    /\ pc[g] = "ret_err"
    /\ mux' = 0
    /\ pc' = [pc EXCEPT ![g] = "idle"]
    /\ UNCHANGED <<fs, objs, instance, gpath, ginst, gtmp, returned, recorded, overlap>>
    /\ SeqFrame

ConcPaths == {CachePath, OtherPath, "/non-existing/path"}

InitConc ==
    /\ pathKind = KindsReg
    /\ fs = [p \in Paths |-> EmptyDir]
    /\ now = 0
    /\ objs = << >>
    /\ instance = [p \in Paths |-> 0]
    /\ last = NoCall
    /\ returned = [p \in Paths |-> {}]
    /\ recorded = [p \in Paths |-> {}]
    /\ overlap = {}
    /\ ProcVarsIdle
    /\ ClientIdle

NextConc ==
    \E g \in Procs :
        \/ \E p \in ConcPaths : GI_Call(g, p)
        \/ GI_Lock(g)
        \/ GI_Lookup(g)
        \/ GI_CreateTemp(g)
        \/ GI_Remove(g)
        \/ GI_Insert(g)
        \/ GI_ReturnInst(g)
        \/ GI_ReturnErr(g)

SpecConc == InitConc /\ [][NextConc]_vars

\* the steps a goroutine takes once it holds the lock
GI_Run(g) ==
    \/ GI_Lookup(g)
    \/ GI_CreateTemp(g)
    \/ GI_Remove(g)
    \/ GI_Insert(g)
    \/ GI_ReturnInst(g)
    \/ GI_ReturnErr(g)

\* SpecConcFair: the scheduler runs every goroutine that can take a step, and
\* sync.Mutex hands the lock to a goroutine that keeps waiting for it (a waiter
\* starved for 1ms gets the lock next); nothing obliges callers to call
SpecConcFair ==
    /\ InitConc
    /\ [][NextConc]_vars
    /\ \A g \in Procs : WF_vars(GI_Run(g)) /\ SF_vars(GI_Lock(g))

(* SpecStore: goroutines call Set and Get on one store concurrently; every  *)
(* file-system call of Set and of Get is one step.                         *)
StoreCallFrame == UNCHANGED <<pathKind, now, objs, instance, mux, last, gpath, ginst,
                              returned, recorded, overlap, failed, conf, att, cwd>>

\* the store all goroutines share
SharedStore == 1

\* a goroutine enters fc.Set(key, value); a nil value returns at once
Set_Call(g, key, value) ==
    /\ pc[g] = "idle"
    /\ gcall' = [gcall EXCEPT ![g] = [NoStoreCall EXCEPT !.op = "Set", !.key = key,
                                                           !.val = value]]
    /\ pc' = [pc EXCEPT ![g] = IF value.nil THEN "set_ret" ELSE "set_create"]
    /\ UNCHANGED <<fs, gtmp, written>>
    /\ StoreCallFrame

\* f, err := os.CreateTemp(fc.path, key+".*")
Set_CreateTemp(g) ==
    /\ pc[g] = "set_create"
    /\ \E tmp \in {n \in ConcTempNames(gcall[g].key) : ~Present(Root(SharedStore), n)} :
         LET c == OsCreateTemp(Kind(SharedStore), Root(SharedStore), tmp, now)
         IN  /\ fs' = [fs EXCEPT ![objs[SharedStore]] = c.dir]
             /\ gtmp' = [gtmp EXCEPT ![g] = IF c.err THEN "" ELSE tmp]
             /\ pc' = [pc EXCEPT ![g] = IF c.err THEN "set_fail" ELSE "set_write"]
    /\ UNCHANGED <<gcall, written>>
    /\ StoreCallFrame

\* _, werr := f.Write(value)
Set_Write(g) ==
    /\ pc[g] = "set_write"
    /\ \E wn \in 0..Len(gcall[g].val.bytes) :
         LET w == OsWrite(Root(SharedStore), gtmp[g], gcall[g].val.bytes, wn, now)
         IN  /\ fs' = [fs EXCEPT ![objs[SharedStore]] = w.dir]
             /\ pc' = [pc EXCEPT ![g] = IF w.err THEN "set_remove" ELSE "set_rename"]
    /\ UNCHANGED <<gtmp, gcall, written>>
    /\ StoreCallFrame

\* os.Remove(f.Name()); return werr
Set_RemoveTemp(g) ==
    /\ pc[g] = "set_remove"
    /\ fs' = [fs EXCEPT ![objs[SharedStore]] = OsRemove(@, gtmp[g]).dir]
    /\ gtmp' = [gtmp EXCEPT ![g] = ""]
    /\ pc' = [pc EXCEPT ![g] = "set_fail"]
    /\ UNCHANGED <<gcall, written>>
    /\ StoreCallFrame

\* f.Truncate(int64(len(value))); os.Rename(f.Name(), newpath), result discarded
Set_Rename(g) ==
    /\ pc[g] = "set_rename"
    /\ fs' = [fs EXCEPT ![objs[SharedStore]] =
                 OsRename(OsTruncate(@, gtmp[g], Len(gcall[g].val.bytes)),
                          gtmp[g], gcall[g].key).dir]
    /\ gtmp' = [gtmp EXCEPT ![g] = ""]
    /\ pc' = [pc EXCEPT ![g] = "set_ret"]
    /\ UNCHANGED <<gcall, written>>
    /\ StoreCallFrame

\* return nil
Set_Return(g) ==
    /\ pc[g] = "set_ret"
    /\ written' = IF gcall[g].val.nil THEN written
                  ELSE [written EXCEPT ![gcall[g].key] = @ \cup {gcall[g].val.bytes}]
    /\ gcall' = [gcall EXCEPT ![g] = NoStoreCall]
    /\ pc' = [pc EXCEPT ![g] = "idle"]
    /\ UNCHANGED <<fs, gtmp>>
    /\ StoreCallFrame

\* return of the error of os.CreateTemp or of f.Write
Set_ReturnErr(g) ==
    /\ pc[g] = "set_fail"
    /\ gcall' = [gcall EXCEPT ![g] = NoStoreCall]
    /\ pc' = [pc EXCEPT ![g] = "idle"]
    /\ UNCHANGED <<fs, gtmp, written>>
    /\ StoreCallFrame

\* a goroutine enters fc.Get(key), that is GetExpiry(key, 0)
Get_Call(g, key) ==
    /\ pc[g] = "idle"
    /\ gcall' = [gcall EXCEPT ![g] = [NoStoreCall EXCEPT !.op = "Get", !.key = key]]
    /\ pc' = [pc EXCEPT ![g] = "get_stat"]
    /\ UNCHANGED <<fs, gtmp, written>>
    /\ StoreCallFrame

\* stat, err := os.Stat(p); maxAge is 0, so the age is not examined
Get_Stat(g) ==
    /\ pc[g] = "get_stat"
    /\ pc' = [pc EXCEPT ![g] = IF OsStat(Root(SharedStore), gcall[g].key).err
                               THEN "get_ret" ELSE "get_read"]
    /\ UNCHANGED <<fs, gtmp, gcall, written>>
    /\ StoreCallFrame

\* content, err := os.ReadFile(p)
Get_ReadFile(g) ==
    /\ pc[g] = "get_read"
    /\ gcall' = [gcall EXCEPT ![g].ret = OsReadFile(Root(SharedStore), gcall[g].key).data]
    /\ pc' = [pc EXCEPT ![g] = "get_ret"]
    /\ UNCHANGED <<fs, gtmp, written>>
    /\ StoreCallFrame

\* return of nil or of the content
Get_Return(g) ==
    /\ pc[g] = "get_ret"
    /\ gcall' = [gcall EXCEPT ![g] = NoStoreCall]
    /\ pc' = [pc EXCEPT ![g] = "idle"]
    /\ UNCHANGED <<fs, gtmp, written>>
    /\ StoreCallFrame

\* the root holds nothing, or an empty sub-directory somebody else put there
InitStore ==
    /\ pathKind = KindsSeq
    /\ \E r \in {EmptyDir, [EmptyDir EXCEPT !["sub"] = DirEntry(0)]} :
          fs = [p \in Paths |-> IF p = CachePath THEN r ELSE EmptyDir]
    /\ now = 0
    /\ objs = <<CachePath>>
    /\ instance = [p \in Paths |-> IF p = CachePath THEN SharedStore ELSE 0]
    /\ last = NoCall
    /\ returned = [p \in Paths |-> IF p = CachePath THEN {SharedStore} ELSE {}]
    /\ recorded = [p \in Paths |-> IF p = CachePath THEN {SharedStore} ELSE {}]
    /\ overlap = {}
    /\ ProcVarsIdle
    /\ ClientIdle

NextStore ==
    \E g \in Procs :
        \/ \E key \in Keys, value \in Payloads : Set_Call(g, key, value)
        \/ Set_CreateTemp(g)
        \/ Set_Write(g)
        \/ Set_RemoveTemp(g)
        \/ Set_Rename(g)
        \/ Set_Return(g)
        \/ Set_ReturnErr(g)
        \/ \E key \in Keys : Get_Call(g, key)
        \/ Get_Stat(g)
        \/ Get_ReadFile(g)
        \/ Get_Return(g)

SpecStore == InitStore /\ [][NextStore]_vars

(* SpecRace: goroutines calling Set, Unset and ClearExpired on one store    *)
(* whose record "a" is older than the age swept; one action per system call *)
\* a goroutine enters fc.ClearExpired(age)
CE_Call(g, age) ==
    /\ pc[g] = "idle"
    /\ gcall' = [gcall EXCEPT ![g] = [NoStoreCall EXCEPT !.op = "ClearExpired",
                                                           !.age = age]]
    /\ pc' = [pc EXCEPT ![g] = "ce_readdir"]
    /\ UNCHANGED <<fs, gtmp, written>>
    /\ StoreCallFrame

\* direntries, err := os.ReadDir(fc.path); directories are skipped by IsDir()
CE_ReadDir(g) ==
    /\ pc[g] = "ce_readdir"
    /\ gcall' = [gcall EXCEPT ![g].todo =
                    SelectSeq(OsReadDir(Root(SharedStore)),
                              LAMBDA n : Root(SharedStore)[n].kind # "dir")]
    /\ pc' = [pc EXCEPT ![g] = IF ScanFails(Kind(SharedStore)) THEN "ce_fail" ELSE "ce_info"]
    /\ UNCHANGED <<fs, gtmp, written>>
    /\ StoreCallFrame

\* stat, statErr := dirent.Info(); statErr == nil && time.Since(stat.ModTime()) > age
CE_Info(g) ==
    /\ pc[g] = "ce_info"
    /\ IF gcall[g].todo = << >>
       THEN /\ pc' = [pc EXCEPT ![g] = "ce_ret"]
            /\ UNCHANGED gcall
       ELSE LET st == OsStat(Root(SharedStore), Head(gcall[g].todo))
            IN  IF ~st.err /\ now - st.info.mtime > gcall[g].age
                THEN /\ pc' = [pc EXCEPT ![g] = "ce_remove"]
                     /\ UNCHANGED gcall
                ELSE /\ gcall' = [gcall EXCEPT ![g].todo = Tail(@)]
                     /\ UNCHANGED pc
    /\ UNCHANGED <<fs, gtmp, written>>
    /\ StoreCallFrame

\* remErr := os.Remove(expFn); if remErr != nil { return remErr }
CE_Remove(g) ==
    /\ pc[g] = "ce_remove"
    /\ LET r == OsRemove(Root(SharedStore), Head(gcall[g].todo))
       IN  /\ fs' = [fs EXCEPT ![objs[SharedStore]] = r.dir]
           /\ pc' = [pc EXCEPT ![g] = IF r.err THEN "ce_fail" ELSE "ce_info"]
           /\ gcall' = [gcall EXCEPT ![g].todo = IF r.err THEN @ ELSE Tail(@)]
    /\ UNCHANGED <<gtmp, written>>
    /\ StoreCallFrame

\* return nil, or the error of os.ReadDir or os.Remove
CE_Return(g) ==
    /\ pc[g] \in {"ce_ret", "ce_fail"}
    /\ gcall' = [gcall EXCEPT ![g] = NoStoreCall]
    /\ pc' = [pc EXCEPT ![g] = "idle"]
    /\ UNCHANGED <<fs, gtmp, written>>
    /\ StoreCallFrame

\* a goroutine enters fc.Unset(key)
US_Call(g, key) ==
    /\ pc[g] = "idle"
    /\ gcall' = [gcall EXCEPT ![g] = [NoStoreCall EXCEPT !.op = "Unset", !.key = key]]
    /\ pc' = [pc EXCEPT ![g] = "us_stat"]
    /\ UNCHANGED <<fs, gtmp, written>>
    /\ StoreCallFrame

\* if _, err := os.Stat(p); err != nil { return false }
US_Stat(g) ==
    /\ pc[g] = "us_stat"
    /\ pc' = [pc EXCEPT ![g] = IF OsStat(Root(SharedStore), gcall[g].key).err
                               THEN "us_ret" ELSE "us_remove"]
    /\ UNCHANGED <<fs, gtmp, gcall, written>>
    /\ StoreCallFrame

\* os.Remove(p), result discarded; return true
US_Remove(g) ==
    /\ pc[g] = "us_remove"
    /\ LET r == OsRemove(Root(SharedStore), gcall[g].key)
       IN  /\ fs' = [fs EXCEPT ![objs[SharedStore]] = r.dir]
           /\ gcall' = [gcall EXCEPT ![g].ok = TRUE, ![g].removed = ~r.err]
    /\ pc' = [pc EXCEPT ![g] = "us_ret"]
    /\ UNCHANGED <<gtmp, written>>
    /\ StoreCallFrame

\* the caller has the result
US_Return(g) ==
    /\ pc[g] = "us_ret"
    /\ gcall' = [gcall EXCEPT ![g] = NoStoreCall]
    /\ pc' = [pc EXCEPT ![g] = "idle"]
    /\ UNCHANGED <<fs, gtmp, written>>
    /\ StoreCallFrame

\* the root holds the record "a", written at time 0; the clock is at MaxTime
InitRace ==
    /\ pathKind = KindsSeq
    /\ fs = [p \in Paths |-> IF p = CachePath
                              THEN [EmptyDir EXCEPT !["a"] = FileEntry(<<1>>, 0)]
                              ELSE EmptyDir]
    /\ now = MaxTime
    /\ objs = <<CachePath>>
    /\ instance = [p \in Paths |-> IF p = CachePath THEN SharedStore ELSE 0]
    /\ last = NoCall
    /\ returned = [p \in Paths |-> IF p = CachePath THEN {SharedStore} ELSE {}]
    /\ recorded = [p \in Paths |-> IF p = CachePath THEN {SharedStore} ELSE {}]
    /\ overlap = {}
    /\ ProcVarsIdle
    /\ ClientIdle

NextRace ==
    \E g \in Procs :
        \/ \E value \in Payloads : Set_Call(g, "a", value)
        \/ Set_CreateTemp(g)
        \/ Set_Write(g)
        \/ Set_RemoveTemp(g)
        \/ Set_Rename(g)
        \/ Set_Return(g)
        \/ Set_ReturnErr(g)
        \/ \E age \in 1..MaxTime : CE_Call(g, age)
        \/ CE_ReadDir(g)
        \/ CE_Info(g)
        \/ CE_Remove(g)
        \/ CE_Return(g)
        \/ US_Call(g, "a")
        \/ US_Stat(g)
        \/ US_Remove(g)
        \/ US_Return(g)

SpecRace == InitRace /\ [][NextRace]_vars

(* ------------------------------- client -------------------------------- *)
(* A string of the configuration is a sequence of tokens: " " is a white    *)
(* space character, "/" a slash, any other token a run of characters that  *)
(* holds neither.                                                          *)
DefaultTimeout == 5
NotificationModes == << <<"production">>, <<"staging">>, <<"debug">> >>
DefaultMode == <<"debug">>

\* position of needle in haystack (from 0), or -1
find(haystack, needle) ==
    IF \E i \in 1..Len(haystack) : haystack[i] = needle
    THEN (CHOOSE i \in 1..Len(haystack) :
             /\ haystack[i] = needle
             /\ \A j \in 1..(i - 1) : haystack[j] # needle) - 1
    ELSE 0 - 1

RECURSIVE TrimLeft(_, _)
TrimLeft(str, cutset) ==
    IF str # << >> /\ Head(str) \in cutset THEN TrimLeft(Tail(str), cutset) ELSE str

RECURSIVE TrimRight(_, _)
TrimRight(str, cutset) ==
    IF str # << >> /\ str[Len(str)] \in cutset
    THEN TrimRight(SubSeq(str, 1, Len(str) - 1), cutset)
    ELSE str

\* strings.Trim and strings.TrimSpace
Trim(str, cutset) == TrimRight(TrimLeft(str, cutset), cutset)
TrimSpace(str) == Trim(str, {" "})

\* the tokens that are a URL scheme with its colon
Schemes == {"http:"}

\* the tokens between the "//" after the scheme and the next slash
Authority(str) ==
    IF Len(str) >= 3 /\ str[2] = "/" /\ str[3] = "/"
    THEN LET rest == SubSeq(str, 4, Len(str))
             cut  == {i \in 1..Len(rest) : rest[i] = "/"}
         IN  IF cut = {} THEN rest
             ELSE SubSeq(rest, 1, (CHOOSE i \in cut : \A j \in cut : i <= j) - 1)
    ELSE << >>

\* url.ParseRequestURI returns no error: the string is an absolute path, or it
\* has a scheme and no white space in its host; white space in the path passes
ParseRequestURIOk(str) ==
    /\ str # << >>
    /\ \/ Head(str) = "/"
       \/ /\ Head(str) \in Schemes
          /\ \A i \in 1..Len(Authority(str)) : Authority(str)[i] # " "

\* ValidateConfiguration: the configuration as the call leaves it, and whether
\* the call returns an error
ValidateConfiguration(c) ==
    LET c1 == [c EXCEPT !.Endpoint = Trim(TrimSpace(c.Endpoint), {"/"}),
                        !.Scope = TrimSpace(c.Scope),
                        !.Mode = TrimSpace(c.Mode)]
        c2 == IF c1.Timeout = 0 THEN [c1 EXCEPT !.Timeout = DefaultTimeout] ELSE c1
    IN  IF c2.Timeout < 0 THEN [conf |-> c2, err |-> TRUE]
        ELSE IF c2.Endpoint = << >> \/ ~ParseRequestURIOk(c2.Endpoint)
             THEN [conf |-> c2, err |-> TRUE]
        ELSE IF c2.Scope = << >> THEN [conf |-> c2, err |-> TRUE]
        ELSE IF c2.Mode = << >> THEN [conf |-> [c2 EXCEPT !.Mode = DefaultMode], err |-> FALSE]
        ELSE IF find(NotificationModes, c2.Mode) = 0 - 1 THEN [conf |-> c2, err |-> TRUE]
        ELSE [conf |-> c2, err |-> FALSE]

\* the values a caller gives the attributes
ConfEndpoints ==
    { << >>, <<" ">>, <<"h">>,
      <<"http:", "/", "/", "h">>,
      <<" ", "http:", "/", "/", "h", "/", " ">>,
      <<"http:", "/", "/", "h", "/", " ", "/">> }
ConfScopes == { << >>, <<" ">>, <<"s">>, <<" ", "s">> }
ConfModes == { << >>, <<" ">>, <<"debug">>, <<" ", "production", " ">>, <<"staging">>,
               <<"Debug">> }
ConfTimeouts == {0 - 1, 0, 1, DefaultTimeout}

DoValidateConfiguration ==
    LET r == ValidateConfiguration(conf)
    IN  /\ conf' = r.conf
        /\ last' = [NoCall EXCEPT !.op = "ValidateConfiguration", !.err = r.err]
        /\ UNCHANGED <<pathKind, fs, now, objs, instance, mux, pc, gpath, ginst, gtmp,
                       returned, recorded, overlap, failed, gcall, written, att, cwd>>

(* The journal of delivery attempts: PersistencyDir holds, for every task, *)
(* the records {task}_url and {task}_body.                                 *)
MaxAttempts == 2

\* the values rand.Uint32() may return, in hexadecimal
RandHex == {"a", "b"}

\* fmt.Sprintf("%v_%x", time.Now().Unix(), rand.Uint32())
TaskName(t, r) == ToString(t) \o "_" \o r
\* fmt.Sprintf("%v_%v", taskname, part)
TaskKey(taskname, part) == taskname \o "_" \o part

TaskNames == {TaskName(t, r) : t \in 0..MaxTime, r \in RandHex}
JournalKeys == {TaskKey(tn, part) : tn \in TaskNames, part \in {"url", "body"}}
JournalNames ==
    JournalKeys \cup UNION {TempNames(k) : k \in JournalKeys} \cup TempNames(ProbePrefix)
EmptyJournal == [n \in JournalNames |-> NoEntry]

\* request URLs and request bodies, as bytes
UrlSeqs == {<<1>>}
BodySeqs == {<<2>>}
Recipients == {<<"r">>, <<" ">>}
StatusCodes == {200, 400}
StatusTexts == {"200 OK", "400 Bad Request"}

\* variant: the body record is not written
PersistTaskSkipsBody(c, requrl, reqbody, rnd, probe, wnUrl, wnBody) ==
    IF c.PersistencyDir = ""
    THEN [taskname |-> "", err |-> FALSE, short |-> "", objs |-> objs,
          instance |-> instance, dir |-> << >>]
    ELSE LET cache == GetInstance(c.PersistencyDir, probe)
             taskname == TaskName(now, rnd)
             urlkname == TaskKey(taskname, "url")
         IN  IF cache.err
             THEN [taskname |-> "", err |-> TRUE, short |-> "", objs |-> cache.objs,
                   instance |-> cache.instance, dir |-> cache.dir]
             ELSE LET u == Set(pathKind[c.PersistencyDir], cache.dir, urlkname,
                               SomeBytes(requrl), TempName(urlkname, "1"), wnUrl, now)
                  IN  [taskname |-> IF u.err THEN "" ELSE taskname, err |-> u.err,
                       short |-> IF u.err THEN "url" ELSE "", objs |-> cache.objs,
                       instance |-> cache.instance, dir |-> u.dir]

\* PersistTask(requrl, reqbody) on client c; rnd is the random number drawn,
\* probe the name New picks, wnUrl and wnBody the bytes the two Sets get written
PersistTask(c, requrl, reqbody, rnd, probe, wnUrl, wnBody) ==
    IF c.PersistencyDir = ""
    THEN [taskname |-> "", err |-> FALSE, short |-> "", objs |-> objs,
          instance |-> instance, dir |-> << >>]
    ELSE LET cache == GetInstance(c.PersistencyDir, probe)
             taskname == TaskName(now, rnd)
             urlkname == TaskKey(taskname, "url")
             bodykname == TaskKey(taskname, "body")
         IN  IF cache.err
             THEN [taskname |-> "", err |-> TRUE, short |-> "", objs |-> cache.objs,
                   instance |-> cache.instance, dir |-> cache.dir]
             ELSE LET u == Set(pathKind[c.PersistencyDir], cache.dir, urlkname,
                               SomeBytes(requrl), TempName(urlkname, "1"), wnUrl, now)
                  IN  IF u.err
                      THEN [taskname |-> "", err |-> TRUE, short |-> "url",
                            objs |-> cache.objs, instance |-> cache.instance,
                            dir |-> u.dir]
                      ELSE LET b == Set(pathKind[c.PersistencyDir], u.dir, bodykname,
                                        reqbody, TempName(bodykname, "1"), wnBody, now)
                           IN  [taskname |-> IF b.err THEN "" ELSE taskname,
                                err |-> b.err,
                                short |-> IF b.err THEN "body" ELSE "",
                                objs |-> cache.objs, instance |-> cache.instance,
                                dir |-> b.dir]

\* variant: an error of PersistTask is returned to the caller
PrepareNotificationAborts(c, recipient, requrl, reqbody, rnd, probe, wnUrl, wnBody) ==
    LET failure(cc) == [conf |-> cc, url |-> NilBytes, body |-> NilBytes, taskname |-> "",
                        err |-> TRUE, persisterr |-> FALSE, short |-> "", objs |-> objs,
                        instance |-> instance, dir |-> << >>, stored |-> FALSE]
    IN  IF TrimSpace(recipient) = << >>
        THEN failure(c)
        ELSE LET v == ValidateConfiguration(c)
             IN  IF v.err
                 THEN failure(v.conf)
                 ELSE LET pt == PersistTask(v.conf, requrl, reqbody, rnd, probe,
                                            wnUrl, wnBody)
                      IN  [conf |-> v.conf,
                           url |-> IF pt.err THEN NilBytes ELSE SomeBytes(requrl),
                           body |-> IF pt.err THEN NilBytes ELSE reqbody,
                           taskname |-> pt.taskname, err |-> pt.err,
                           persisterr |-> pt.err, short |-> pt.short, objs |-> pt.objs,
                           instance |-> pt.instance, dir |-> pt.dir,
                           stored |-> c.PersistencyDir # ""]

\* PrepareNotification: recipient is the recipient given, requrl the URL that
\* mkTattlerRequestURL assembles and reqbody the JSON that mkJSONContext makes
PrepareNotification(c, recipient, requrl, reqbody, rnd, probe, wnUrl, wnBody) ==
    LET failure(cc) == [conf |-> cc, url |-> NilBytes, body |-> NilBytes, taskname |-> "",
                        err |-> TRUE, persisterr |-> FALSE, short |-> "", objs |-> objs,
                        instance |-> instance, dir |-> << >>, stored |-> FALSE]
    IN  IF TrimSpace(recipient) = << >>
        THEN failure(c)
        ELSE LET v == ValidateConfiguration(c)
             IN  IF v.err
                 THEN failure(v.conf)
                 ELSE LET pt == PersistTask(v.conf, requrl, reqbody, rnd, probe,
                                            wnUrl, wnBody)
                      IN  \* persisterr is logged and ignored
                          [conf |-> v.conf, url |-> SomeBytes(requrl), body |-> reqbody,
                           taskname |-> pt.taskname, err |-> FALSE,
                           persisterr |-> pt.err, short |-> pt.short, objs |-> pt.objs,
                           instance |-> pt.instance, dir |-> pt.dir,
                           stored |-> c.PersistencyDir # ""]

\* ClearTask(taskname) on client c: wd is the working directory, which the
\* relative paths handed to os.Remove name
ClearTask(c, taskname, wd, probe) ==
    IF taskname = ""
    THEN [err |-> FALSE, wd |-> wd, objs |-> objs, instance |-> instance,
          dir |-> << >>, stored |-> FALSE]
    ELSE IF c.PersistencyDir = ""
    THEN [err |-> TRUE, wd |-> wd, objs |-> objs, instance |-> instance,
          dir |-> << >>, stored |-> FALSE]
    ELSE LET wd1 == OsRemove(wd, TaskKey(taskname, "url")).dir
             wd2 == OsRemove(wd1, TaskKey(taskname, "body")).dir
             cache == GetInstance(c.PersistencyDir, probe)
         IN  IF cache.err
             THEN [err |-> TRUE, wd |-> wd2, objs |-> cache.objs,
                   instance |-> cache.instance, dir |-> cache.dir, stored |-> TRUE]
             ELSE LET u == Unset(cache.dir, TaskKey(taskname, "url"))
                      b == Unset(u.dir, TaskKey(taskname, "body"))
                  IN  [err |-> FALSE, wd |-> wd2, objs |-> cache.objs,
                       instance |-> cache.instance, dir |-> b.dir, stored |-> TRUE]

\* variant: the status text decides
processResponseByText(c, statusCode, statusText, taskname, wd, probe) ==
    IF statusText # "200 OK"
    THEN [err |-> TRUE, wd |-> wd, objs |-> objs, instance |-> instance,
          dir |-> << >>, stored |-> FALSE]
    ELSE [ClearTask(c, taskname, wd, probe) EXCEPT !.err = FALSE]

\* variant: the task is cleared whatever the status
processResponseAlwaysClears(c, statusCode, statusText, taskname, wd, probe) ==
    [ClearTask(c, taskname, wd, probe) EXCEPT !.err = statusCode # 200]

\* processResponse: the result of ClearTask is not examined
processResponse(c, statusCode, statusText, taskname, wd, probe) ==
    IF statusCode # 200
    THEN [err |-> TRUE, wd |-> wd, objs |-> objs, instance |-> instance,
          dir |-> << >>, stored |-> FALSE]
    ELSE [ClearTask(c, taskname, wd, probe) EXCEPT !.err = FALSE]

ClientFrame == UNCHANGED <<pathKind, now, mux, last, pc, gpath, ginst, gtmp,
                           returned, recorded, overlap, failed, gcall, written>>

\* the names New may pick for the probe of the client's PersistencyDir
ClientProbes(c) ==
    IF c.PersistencyDir = "" THEN TempNames(ProbePrefix) ELSE ProbeChoices(c.PersistencyDir)

\* SendNotification, up to the call of client.Do: PrepareNotification and
\* prepareHTTPRequest
SN_Prepare(recipient, requrl, reqbody) ==
    /\ att.pc \in {"idle", "done"}
    /\ att.n < MaxAttempts
    /\ \E rnd \in RandHex, probe \in ClientProbes(conf),
          wnUrl \in 0..Len(requrl), wnBody \in 0..Len(reqbody.bytes) :
         LET r == PrepareNotification(conf, recipient, requrl, reqbody, rnd, probe,
                                      wnUrl, wnBody)
         IN  /\ conf' = r.conf
             /\ objs' = r.objs
             /\ instance' = r.instance
             /\ fs' = IF r.stored THEN [fs EXCEPT ![conf.PersistencyDir] = r.dir] ELSE fs
             /\ att' = [n |-> att.n + 1, pc |-> IF r.err THEN "done" ELSE "transport",
                        url |-> r.url, body |-> r.body, taskname |-> r.taskname,
                        persisterr |-> r.persisterr, short |-> r.short,
                        status |-> 0, text |-> "", err |-> r.err]
    /\ UNCHANGED cwd
    /\ ClientFrame

\* resp, resperr := client.Do(request) fails: SendNotification returns the error
SN_TransportError ==
    /\ att.pc = "transport"
    /\ att' = [att EXCEPT !.pc = "done", !.err = TRUE]
    /\ UNCHANGED <<fs, objs, instance, conf, cwd>>
    /\ ClientFrame

\* resp, resperr := client.Do(request) returns a response
SN_Response(statusCode, statusText) ==
    /\ att.pc = "transport"
    /\ att' = [att EXCEPT !.pc = "response", !.status = statusCode, !.text = statusText]
    /\ UNCHANGED <<fs, objs, instance, conf, cwd>>
    /\ ClientFrame

\* return n.processResponse(resp.StatusCode, resp.Status, urlstr, respbody, taskname)
SN_ProcessResponse ==
    /\ att.pc = "response"
    /\ \E probe \in ClientProbes(conf) :
         LET r == processResponse(conf, att.status, att.text, att.taskname, cwd, probe)
         IN  /\ objs' = r.objs
             /\ instance' = r.instance
             /\ fs' = IF r.stored THEN [fs EXCEPT ![conf.PersistencyDir] = r.dir] ELSE fs
             /\ cwd' = r.wd
             /\ att' = [att EXCEPT !.pc = "done", !.err = r.err]
    /\ UNCHANGED conf
    /\ ClientFrame

\* time passes while the client works
ClientTick ==
    /\ now < MaxTime
    /\ now' = now + 1
    /\ UNCHANGED <<pathKind, fs, objs, instance, mux, last, pc, gpath, ginst, gtmp,
                   returned, recorded, overlap, failed, gcall, written, conf, att, cwd>>

(* SpecClient: one client sending notifications one after the other, with  *)
(* persistence disabled, enabled, or enabled on a directory that does not  *)
(* exist.                                                                  *)
ClientDirs == {"", CachePath, "/non-existing/path"}

InitClient ==
    /\ pathKind = KindsSeq
    /\ fs = [p \in Paths |-> IF p = CachePath THEN EmptyJournal ELSE EmptyDir]
    /\ now = 0
    /\ objs = << >>
    /\ instance = [p \in Paths |-> 0]
    /\ last = NoCall
    /\ returned = [p \in Paths |-> {}]
    /\ recorded = [p \in Paths |-> {}]
    /\ overlap = {}
    /\ ProcVarsIdle
    /\ failed = {}
    /\ att = NoAttempt
    /\ \E stray \in {NoEntry, FileEntry(<<1>>, 0)} :
          cwd = [EmptyJournal EXCEPT ![TaskKey(TaskName(0, "a"), "url")] = stray]
    /\ \E e \in {<< >>, <<"http:", "/", "/", "h", "/">>}, d \in ClientDirs :
          conf = [Scope |-> <<"s">>, Endpoint |-> e, Timeout |-> 0, Mode |-> << >>,
                  PersistencyDir |-> d]

NextClient ==
    \/ \E recipient \in Recipients, requrl \in UrlSeqs, b \in BodySeqs :
          SN_Prepare(recipient, requrl, SomeBytes(b))
    \/ SN_TransportError
    \/ \E statusCode \in StatusCodes, statusText \in StatusTexts :
          SN_Response(statusCode, statusText)
    \/ SN_ProcessResponse
    \/ ClientTick

SpecClient == InitClient /\ [][NextClient]_vars

(* SpecConf: a caller fills in the attributes and calls                    *)
(* ValidateConfiguration, any number of times.                             *)
InitConf ==
    /\ pathKind = KindsSeq
    /\ fs = [p \in Paths |-> EmptyDir]
    /\ now = 0
    /\ objs = << >>
    /\ instance = [p \in Paths |-> 0]
    /\ last = NoCall
    /\ returned = [p \in Paths |-> {}]
    /\ recorded = [p \in Paths |-> {}]
    /\ overlap = {}
    /\ ProcVarsIdle
    /\ failed = {}
    /\ att = NoAttempt
    /\ cwd = EmptyDir
    /\ \E e \in ConfEndpoints, sc \in ConfScopes, m \in ConfModes, t \in ConfTimeouts :
          conf = [Scope |-> sc, Endpoint |-> e, Timeout |-> t, Mode |-> m,
                  PersistencyDir |-> ""]

NextConf == DoValidateConfiguration

SpecConf == InitConf /\ [][NextConf]_vars

(* ------------------------- properties of the store --------------------- *)
\* a record is a non-directory entry directly under the root
HasRecord(d, n) == d[n].kind = "file"
Records(d) == {n \in Names : HasRecord(d, n)}
SeqToSet(q) == {q[i] : i \in 1..Len(q)}
LastRoot == fs[last.path]

\* C3: for every key K and present payload V (the empty one too), a Set(K, V)
\* that reports success is followed by Get(K) returning exactly V, present and
\* not absent.
C3_SetThenGet ==
    (last.op = "Set" /\ ~last.err /\ ~last.val.nil)
        => Get(LastRoot, last.key, now) = last.val

\* C4: Set(K, nil) on a store returns success and leaves the whole root as it
\* was: no entry is created, modified or removed, and Get of every name
\* returns what it returned before.
C4_SetNilNoOp ==
    [][(last'.op = "Set" /\ last'.inst # 0 /\ last'.val.nil)
        => /\ ~last'.err
           /\ fs' = fs
           /\ \A n \in Names :
                Get(fs'[last'.path], n, now') = Get(fs[last'.path], n, now)]_vars

C4_Witness ==
    /\ last.op = "Set" /\ last.inst # 0 /\ last.val.nil /\ ~last.err
    /\ HasRecord(LastRoot, last.key)

\* what GetExpiry is to return for key and maxAge in directory d at time t
ExpectedGetExpiry(d, key, maxAge, t) ==
    IF ~HasRecord(d, key) \/ (maxAge > 0 /\ t - d[key].mtime > maxAge)
    THEN NilBytes
    ELSE SomeBytes(d[key].data)

C5_Result ==
    /\ last.op = "GetExpiry"
         => last.ret = ExpectedGetExpiry(LastRoot, last.key, last.age, now)
    /\ last.op = "Get"
         => last.ret = IF HasRecord(LastRoot, last.key)
                       THEN SomeBytes(LastRoot[last.key].data) ELSE NilBytes

C5_Monotone ==
    (now' > now /\ fs' = fs)
        => \A p \in Paths, k \in Names, m \in Durations :
              (m > 0 /\ GetExpiry(fs[p], k, m, now) = NilBytes)
                 => GetExpiry(fs'[p], k, m, now') = NilBytes

\* C5: GetExpiry(K, maxAge) returns absent if K holds no record or if maxAge is
\* positive and the record's age exceeds it, and the record's content
\* otherwise; Get(K) returns the content of any record however old; and while
\* time advances with no write, a result that is absent stays absent.
C5_GetExpiry == []C5_Result /\ [][C5_Monotone]_vars

C5_Witness ==
    /\ last.op = "GetExpiry" /\ last.age > 0 /\ last.ret = NilBytes
    /\ HasRecord(LastRoot, last.key)
    /\ Get(LastRoot, last.key, now) # NilBytes

\* C6: Unset(K) returns true exactly when K held a record before the call,
\* and false when K was absent or never set; after it returned true, Get(K)
\* returns absent.
C6_UnsetOnce ==
    [][last'.op = "Unset"
        => /\ ~last'.err <=> HasRecord(fs[last'.path], last'.key)
           /\ ~last'.err => Get(fs'[last'.path], last'.key, now') = NilBytes]_vars

\* the records ClearExpired(age) is to remove from directory d at time t
Expired(d, age, t) == {n \in Records(d) : t - d[n].mtime > age}

\* C7: ClearExpired(age) removes exactly the records whose age exceeds age,
\* leaves every other entry as it was, and Len() drops by the number of
\* records removed.
C7_ClearExpiredExact ==
    [][last'.op = "ClearExpired"
        => LET p == last'.path
               gone == Expired(fs[p], last'.age, now)
           IN  /\ ~last'.err
               /\ \A n \in Names :
                    fs'[p][n] = IF n \in gone THEN NoEntry ELSE fs[p][n]
               /\ FSCacheLen(pathKind[p], fs'[p])
                    = FSCacheLen(pathKind[p], fs[p]) - Cardinality(gone)]_vars

C7_Witness ==
    /\ last.op = "ClearExpired"
    /\ FSCacheLen(pathKind[last.path], LastRoot) > 0
    /\ FSCacheLen(pathKind[last.path], LastRoot) < last.lenBefore

\* C8: after Clear() returns, Len() is 0 and List() is the empty sequence,
\* whatever records and sub-directories the root held.
C8_ClearEmpties ==
    last.op = "Clear"
        => /\ FSCacheLen(pathKind[last.path], LastRoot) = 0
           /\ List(pathKind[last.path], LastRoot) = [keys |-> << >>, err |-> FALSE]

C8_Witness ==
    /\ last.op = "Clear" /\ last.lenBefore > 0 /\ last.dirsBefore > 0
    /\ LastRoot = EmptyDir

\* C9: after any sequence of completed calls, List() returns exactly the names
\* that hold a record (the names Get finds, each once, no directory) and Len()
\* is the number of names List() returns.
C9_ListIsRecords ==
    \A fc \in Objects :
        LET l == List(Kind(fc), Root(fc))
        IN  /\ ~l.err
            /\ SeqToSet(l.keys) = {n \in Names : Get(Root(fc), n, now) # NilBytes}
            /\ Cardinality(SeqToSet(l.keys)) = Len(l.keys)
            /\ FSCacheLen(Kind(fc), Root(fc)) = Len(l.keys)

\* List() names the records and leaves out the sub-directory next to them
C9_Witness ==
    /\ last.op = "List" /\ Len(last.keys) >= 1
    /\ DirCount(LastRoot) >= 1
    /\ FSCacheLen(pathKind[last.path], LastRoot) = Len(last.keys)

(* ------------------------ properties of the registry ------------------- *)
\* C1: a successful GetInstance(P) returns the object every earlier successful
\* GetInstance(P) returned, whatever New, GetInstance and store calls happened
\* in between.
C1_SameInstance ==
    [][(last'.op = "GetInstance" /\ ~last'.err)
        => returned[last'.path] \subseteq {last'.inst}]_vars

\* a repeated GetInstance on a path whose store was written, after other
\* objects were constructed
C1_Witness ==
    /\ last.op = "GetInstance" /\ ~last.err
    /\ last.inst < Len(objs)
    /\ HasRecord(LastRoot, "a")

\* C2: under every interleaving of GetInstance calls, at most one object is
\* ever stored in the mapping and returned for a path.
C2_OneInstancePerPath ==
    \A p \in Paths : Cardinality(returned[p] \cup recorded[p]) <= 1

\* two calls for one path overlapped in time; one has returned the object the
\* other is about to return
C2_Witness ==
    \E p \in overlap : \E h \in Procs :
        pc[h] = "ret_ok" /\ gpath[h] = p /\ ginst[h] \in returned[p]

\* C10: New and GetInstance on a path that does not exist, is not a directory
\* or is not writable return a failure and no object, and no object is
\* allocated or recorded for the path.
C10_ConstructionFails ==
    (last.op \in {"New", "GetInstance"} /\ pathKind[last.path] # "dir")
        => /\ last.err
           /\ last.inst = 0
           /\ instance[last.path] = 0
           /\ \A i \in Objects : objs[i] # last.path

C10_Witness ==
    /\ last.op = "GetInstance" /\ pathKind[last.path] = "readonly"
    /\ last.err /\ Len(objs) > 0

\* C11: a GetInstance(P) that fails leaves the registry as it was: no entry
\* for P, no object allocated; every later GetInstance(P) probes P again, so
\* it fails while P is not a writable directory and succeeds, allocating and
\* recording one object, once P has become one.
C11_FailureNotCached ==
    [][last'.op = "GetInstance"
        => LET p == last'.path
           IN  /\ last'.err <=> (instance[p] = 0 /\ pathKind[p] # "dir")
               /\ last'.err => /\ instance' = instance
                               /\ objs' = objs
                               /\ recorded' = recorded
                               /\ returned' = returned
               /\ (p \in failed /\ pathKind[p] = "dir")
                     => /\ ~last'.err
                        /\ instance'[p] = last'.inst
                        /\ objs'[last'.inst] = p]_vars

\* GetInstance failed for the path while it was missing and succeeds now that
\* the directory exists
C11_Witness ==
    /\ last.op = "GetInstance" /\ ~last.err
    /\ last.path \in failed
    /\ instance[last.path] = last.inst

\* C12: a construction that succeeds leaves the contents of the root exactly
\* as they were (the probe file is gone), and a store constructed on an empty
\* directory has an empty List() and Len() 0.
C12_ConstructionLeavesRoot ==
    [][(last'.op \in {"New", "GetInstance"} /\ ~last'.err)
        => /\ fs' = fs
           /\ \A n \in TempNames(ProbePrefix) : ~Present(fs'[last'.path], n)
           /\ fs[last'.path] = EmptyDir
                 => /\ List(pathKind[last'.path], fs'[last'.path])
                         = [keys |-> << >>, err |-> FALSE]
                    /\ FSCacheLen(pathKind[last'.path], fs'[last'.path]) = 0]_vars

\* New succeeded on a root that holds a record, and on an empty one
C12_Witness ==
    /\ last.op = "New" /\ ~last.err
    /\ HasRecord(fs[CachePath], "a")
    /\ fs[OtherPath] = EmptyDir
    /\ \E i \in Objects : objs[i] = OtherPath

\* C14: if a step of Set(K, V) fails (creating the temporary file, writing
\* it, renaming it onto K), Set returns a failure, the temporary file is
\* removed and Get(K) returns what it returned before; and a Set of a non-nil V
\* that returns success leaves record K holding V and no temporary file.
C14_SetAllOrNothing ==
    [][(last'.op = "Set" /\ last'.inst # 0 /\ ~last'.val.nil)
        => LET p == last'.path
               k == last'.key
           IN  /\ fs[p][k].kind = "dir" => last'.err
               /\ last'.err => fs'[p] = fs[p]
               /\ ~last'.err
                     => /\ HasRecord(fs'[p], k)
                        /\ fs'[p][k].data = last'.val.bytes
                        /\ \A n \in TempNames(k) : fs'[p][n] = fs[p][n]]_vars

\* C20: the registry lock is held only for the lookup and the insertion, never
\* during the directory validation: no goroutine holds the lock while the
\* creation or the removal of its probe file is pending.
C20_NoLockAcrossProbe ==
    \A g \in Procs : pc[g] \in {"create", "remove"} => mux # g

\* the goroutines inside a Set of key k that have written their value
Writers(k) ==
    {g \in Procs : gcall[g].op = "Set" /\ gcall[g].key = k
                     /\ pc[g] \in {"set_rename", "set_ret"}}
SetsInProgress(k) == {g \in Procs : gcall[g].op = "Set" /\ gcall[g].key = k}

\* a Get(K) concurrent with Sets of K returns absent or, in full, a value that
\* some Set of K stored before or is storing
C13_NoTornRead ==
    \A g \in Procs :
        pc[g] = "get_ret"
            => \/ gcall[g].ret = NilBytes
               \/ gcall[g].ret.bytes \in written[gcall[g].key]
                     \cup {gcall[h].val.bytes : h \in Writers(gcall[g].key)}

\* once every Set of K has returned, Get(K) returns one of the values set
C13_LastWriteWins ==
    \A k \in Keys :
        (written[k] # {} /\ SetsInProgress(k) = {})
            => LET v == Get(Root(SharedStore), k, now)
               IN  ~v.nil /\ v.bytes \in written[k]

\* C13: a Get(K) that runs concurrently with Set(K, V_i) calls never returns
\* partly written content (it returns absent, the value stored before, or one
\* V_i in full), and once all these Sets have returned Get(K) returns one of
\* the V_i.
C13_AtomicSet == C13_NoTornRead /\ C13_LastWriteWins

\* C27: every GetInstance call returns and releases the registry lock, on a
\* cached hit, after a construction and after a failed construction, so no
\* later caller waits forever.
C27_GetInstanceReturns ==
    /\ \A g \in Procs : (pc[g] # "idle") ~> (pc[g] = "idle")
    /\ (mux # 0) ~> (mux = 0)

\* a caller waits for the lock held by a caller whose construction failed
C27_Witness ==
    \E g \in Procs, h \in Procs :
        /\ pc[g] = "ret_err" /\ mux = g
        /\ pc[h] = "lock"

(* ------------------------- properties of the client -------------------- *)
\* the configuration has an Endpoint and a Scope that ValidateConfiguration accepts
ValidEndpointAndScope(c) ==
    /\ ParseRequestURIOk(Trim(TrimSpace(c.Endpoint), {"/"}))
    /\ TrimSpace(c.Scope) # << >>

\* defaults and rejections of ValidateConfiguration
C19_DefaultsAndErrors ==
    [][last'.op = "ValidateConfiguration"
        => /\ conf.Timeout < 0 => last'.err
           /\ (ValidEndpointAndScope(conf) /\ conf.Mode = << >> /\ conf.Timeout = 0)
                 => /\ ~last'.err
                    /\ conf'.Mode = <<"debug">>
                    /\ conf'.Timeout = DefaultTimeout
           /\ TrimSpace(conf.Mode) \notin {<< >>, <<"production">>, <<"staging">>, <<"debug">>}
                 => last'.err]_vars

\* a second call on the result of a call that returned nil changes nothing
C19_Idempotent ==
    [][(last'.op = "ValidateConfiguration" /\ ~last'.err)
        => ValidateConfiguration(conf') = [conf |-> conf', err |-> FALSE]]_vars

\* C19: ValidateConfiguration on a valid Endpoint and Scope with Mode unset and
\* Timeout zero returns nil and sets Mode to "debug" and Timeout to
\* DefaultTimeout; it returns an error for a negative Timeout and for a Mode
\* outside the three supported ones; and calling it again on its own result
\* changes nothing.
C19_ValidateConfiguration == C19_DefaultsAndErrors /\ C19_Idempotent

\* the journal of the client, and the two records of its current task
Journal == fs[conf.PersistencyDir]
UrlKey == TaskKey(att.taskname, "url")
BodyKey == TaskKey(att.taskname, "body")

\* C15: with persistence enabled, the records {task}_url and {task}_body of a
\* journalled attempt stay in the store until the attempt got a response with
\* status 200: they are both there while the attempt is under way and after a
\* transport failure or a response with another status, and both gone after a
\* response with status 200.
C15_JournalUntilSuccess ==
    att.taskname # ""
        => IF att.pc = "done" /\ ~att.err
           THEN ~Present(Journal, UrlKey) /\ ~Present(Journal, BodyKey)
           ELSE HasRecord(Journal, UrlKey) /\ HasRecord(Journal, BodyKey)

\* the attempt succeeded and its records are gone, while those of an earlier
\* attempt that failed are still there
C15_Witness ==
    /\ att.pc = "done" /\ ~att.err /\ att.taskname # "" /\ att.status = 200
    /\ ~Present(Journal, UrlKey)
    /\ \E tn \in TaskNames \ {att.taskname} :
          HasRecord(Journal, TaskKey(tn, "url")) /\ HasRecord(Journal, TaskKey(tn, "body"))

\* C16: with persistence enabled, the directory usable and no write cut short,
\* when the transport call of an attempt is about to start PrepareNotification
\* has returned a non-empty task name and the store holds {task}_url with
\* exactly the bytes of the request URL and {task}_body with exactly the bytes
\* of the request body.
C16_JournalBeforeDelivery ==
    (/\ att.pc = "transport"
     /\ conf.PersistencyDir # ""
     /\ pathKind[conf.PersistencyDir] = "dir"
     /\ att.short = "")
        => /\ att.taskname # ""
           /\ OsReadFile(Journal, UrlKey).data = att.url
           /\ OsReadFile(Journal, BodyKey).data = att.body

\* the second attempt is about to be sent, journalled
C16_Witness ==
    /\ att.pc = "transport" /\ att.n > 1 /\ att.taskname # ""
    /\ OsReadFile(Journal, BodyKey).data = att.body
    /\ ~att.body.nil

\* C17: when PersistTask fails (the store cannot be obtained, or the Set of
\* the URL or of the body fails), PrepareNotification still returns the URL
\* and the body without error and SendNotification goes on to the transport
\* call.
C17_PersistFailureIgnored ==
    [][att'.n = att.n + 1
        => /\ att'.short # "" => att'.persisterr
           /\ (~att'.err /\ conf.PersistencyDir # ""
                 /\ pathKind[conf.PersistencyDir] # "dir") => att'.persisterr
           /\ att'.persisterr
                 => /\ ~att'.err
                    /\ ~att'.url.nil /\ ~att'.body.nil
                    /\ att'.taskname = ""
                    /\ att'.pc = "transport"]_vars

\* the write of the body record was cut short, the URL record is left in the
\* store, and the notification is about to be sent
C17_Witness ==
    /\ att.pc = "transport" /\ att.persisterr /\ att.short = "body"
    /\ \E k \in JournalKeys : HasRecord(Journal, k)

\* C18: processResponse, and with it SendNotification, returns an error
\* exactly when the status code of the response is not 200, whatever the
\* status text; for 200 it returns nil.
C18_ErrorIffNot200 ==
    [][(att.pc = "response" /\ att'.pc = "done")
        => (att'.err <=> att.status # 200)]_vars

\* a response with code 400 and text "200 OK" was processed
C18_Witness ==
    /\ att.pc = "done" /\ att.status = 400 /\ att.text = "200 OK" /\ att.err

(* ---------------------- failures of Clear and ClearExpired -------------- *)
\* position of a name in the listing order
Pos(n) == CHOOSE i \in 1..Len(NameSeq) : NameSeq[i] = n

\* C21: Clear() tries to remove every entry and reports the last failure met:
\* it returns an error if the removal of any entry failed, also when entries
\* processed after it were removed, and nil only if every removal succeeded.
C21_ClearReportsFailure ==
    [][last'.op = "Clear"
        => /\ \A n \in Names : ~fs[last'.path][n].locked => ~Present(fs'[last'.path], n)
           /\ last'.err <=> (\E n \in Names : Present(fs'[last'.path], n))]_vars

\* the expired entries ClearExpired cannot remove
Stuck(d, age, t) == {n \in Expired(d, age, t) : d[n].locked}

\* C22: ClearExpired stops at the first expired entry it cannot remove and
\* returns an error: the expired entries listed before it are removed, every
\* other entry is as it was; it returns nil only if every expired entry was
\* removed.
C22_ClearExpiredStops ==
    [][last'.op = "ClearExpired"
        => LET p == last'.path
               exp == Expired(fs[p], last'.age, now)
               stuck == Stuck(fs[p], last'.age, now)
               gone == IF stuck = {} THEN exp
                       ELSE {n \in exp : \A m \in stuck : Pos(n) < Pos(m)}
           IN  /\ last'.err <=> stuck # {}
               /\ \A n \in Names :
                    fs'[p][n] = IF n \in gone THEN NoEntry ELSE fs[p][n]
               /\ ~last'.err => Expired(fs'[p], last'.age, now') = {}]_vars

\* ClearExpired failed after it removed an entry, and an expired entry listed
\* after the failing one is still there
C22_Witness ==
    /\ last.op = "ClearExpired" /\ last.err
    /\ FSCacheLen(pathKind[last.path], LastRoot) < last.lenBefore
    /\ LastRoot["a.1"].locked
    /\ HasRecord(LastRoot, "sub") /\ ~LastRoot["sub"].locked
    /\ now - LastRoot["sub"].mtime > last.age

(* ------------------- properties of concurrent store calls -------------- *)
\* C23: when ClearExpired(age), age positive, runs concurrently with
\* Set(K, V) on a key whose record is older than age, K holds V after both:
\* the os.Remove of a sweep never removes a record whose last write is
\* younger than age.
C23_SweepSparesFresh ==
    [][\A g \in Procs :
          (pc[g] = "ce_remove" /\ pc'[g] = "ce_info")
              => LET n == Head(gcall[g].todo)
                 IN  now - Root(SharedStore)[n].mtime > gcall[g].age]_vars

\* C24: in every state, also while Set calls run and after a Set failed,
\* every non-directory entry of the root is a record: its name is a key given
\* to Set and its content the bytes written for the key, so a concurrent
\* Len() counts no temporary file.
C24_OnlyRecords ==
    /\ \A n \in Records(Root(SharedStore)) :
          /\ n \in Keys
          /\ Root(SharedStore)[n].data \in written[n]
                \cup {gcall[h].val.bytes : h \in Writers(n)}
    /\ FSCacheLen(Kind(SharedStore), Root(SharedStore))
          = Cardinality({k \in Keys : HasRecord(Root(SharedStore), k)})

\* C26: Unset(K) returns true only when the call itself removed the record
\* (of two concurrent Unset(K) on one record one gets true), and false when
\* the entry is still there after the call.
C26_UnsetTrueIffRemoved ==
    \A g \in Procs :
        (pc[g] = "us_ret" /\ gcall[g].ok) => gcall[g].removed

(* ------------------------ properties of the journal -------------------- *)
\* C25: two delivery attempts journalled in one store never get the same task
\* name: the PersistTask of an attempt overwrites no record that is already in
\* the store (so clearing it later removes no other attempt's records).
C25_DistinctTaskNames ==
    [][(att'.n = att.n + 1 /\ att'.taskname # "")
        => /\ ~Present(Journal, TaskKey(att'.taskname, "url"))
           /\ ~Present(Journal, TaskKey(att'.taskname, "body"))]_vars

\* C28: ClearTask(task) changes nothing but the records {task}_url and
\* {task}_body of the store rooted at PersistencyDir; every other record and
\* every file elsewhere, the working directory included, is left as it is, and
\* with an empty task name nothing changes at all.
C28_ClearTaskFrame ==
    [][(att.pc = "response" /\ att'.pc = "done")
        => /\ cwd' = cwd
           /\ att.taskname = "" => fs' = fs
           /\ \A p \in Paths : \A n \in DOMAIN fs[p] :
                 (p # conf.PersistencyDir \/ n \notin {UrlKey, BodyKey})
                     => fs'[p][n] = fs[p][n]]_vars

\* C29: PersistTask is all-or-nothing: when it returns a task name both
\* {task}_url and {task}_body exist, and when it returns an error or an empty
\* task name it leaves no record of the attempt in the store.
C29_PersistAllOrNothing ==
    [][att'.n = att.n + 1
        => IF att'.taskname # ""
           THEN /\ HasRecord(fs'[conf.PersistencyDir], TaskKey(att'.taskname, "url"))
                /\ HasRecord(fs'[conf.PersistencyDir], TaskKey(att'.taskname, "body"))
           ELSE fs' = fs]_vars

====
